---- MODULE Spec2Model ----
(***************************************************************************)
(* Directive middleware for a GraphQL execution pipeline                   *)
(* (useRedwoodDirectives, getDirective, requiresAuthDirective,             *)
(* uppercaseDirective) and the static directive-presence validator         *)
(* (validateDirectives).                                                   *)
(*                                                                         *)
(* JavaScript values are records [type, val] where val is a sequence of    *)
(* one-character strings (strings), or of fields (objects).  Mappings      *)
(* (contexts, decoded directive arguments) are sets of <<key, value>>.     *)
(***************************************************************************)
EXTENDS Integers, Sequences, FiniteSets, TLC

\* ------------------------------------------------------------------ bounds
\* Number of field resolutions the host engine runs in one execution.
NumRes == 2
\* Declaration trees given to validateDirectives: number of definitions and
\* number of fields per object type.
MaxTypes == 2
MaxFields == 2
\* Calls of validateDirectives made in one behaviour.
MaxCalls == 2

Res == 1..NumRes

\* ------------------------------------------------------------ JS values
Undefined == [type |-> "undefined", val |-> <<>>]
Null == [type |-> "null", val |-> <<>>]
Str(chars) == [type |-> "string", val |-> chars]
Num(digits) == [type |-> "number", val |-> digits]
\* a user object {id, name, role}
User(role) == [type |-> "object", val |-> <<"1", "Dotan", role>>]

\* JavaScript truthiness (`result && ...`, `!args.contextValue.currentUser`)
Truthy(v) ==
  CASE v.type = "undefined" -> FALSE
    [] v.type = "null" -> FALSE
    [] v.type = "string" -> v.val # <<>>
    [] v.type = "number" -> v.val # <<"0">>
    [] OTHER -> TRUE

\* property read on a mapping: obj[key], undefined when the key is absent
Prop(obj, key) ==
  IF \E p \in obj : p[1] = key
    THEN (CHOOSE p \in obj : p[1] = key)[2]
    ELSE Undefined

\* String.prototype.toUpperCase on the characters the model uses
UpperChar(c) ==
  CASE c = "d" -> "D"
    [] c = "o" -> "O"
    [] c = "t" -> "T"
    [] c = "a" -> "A"
    [] c = "n" -> "N"
    [] c = "i" -> "I"
    [] OTHER -> c

toUpperCase(chars) == [i \in 1..Len(chars) |-> UpperChar(chars[i])]

\* ---------------------------------------------------------------- schema
DirectiveNode(name, arguments) == [name |-> name, arguments |-> arguments]
NoNode == DirectiveNode("", {})

\* a field of an object type; astNode is undefined for fields added at run
\* time, and astNode.directives is optional in the AST typing
FieldDef(hasAst, hasDirs, dirs) ==
  [astNode |-> hasAst, hasDirectives |-> hasDirs, directives |-> dirs]

Declared(dirs) == FieldDef(TRUE, TRUE, dirs)

\* testSchema, plus fields that exercise the generic plugin: two directives
\* on one field, a directive used without its required argument (alone and
\* next to an argument the definition does not declare), a field whose
\* resolver may return any value, and a type built without SDL.
SchemaTypeMap ==
  [Query |->
     [me |-> Declared(<<DirectiveNode("auth", {<<"role", "USER">>})>>),
      simple |-> Declared(<<>>),
      secretPassword |-> Declared(<<DirectiveNode("auth", {<<"role", "ADMIN">>})>>),
      testUpper |-> Declared(<<DirectiveNode("uppercase", {})>>),
      both |-> Declared(<<DirectiveNode("auth", {<<"role", "USER">>}),
                          DirectiveNode("uppercase", {})>>),
      noRole |-> Declared(<<DirectiveNode("auth", {})>>),
      noRoleExtra |-> Declared(<<DirectiveNode("auth", {<<"scope", "ADMIN">>})>>),
      anyUpper |-> Declared(<<DirectiveNode("uppercase", {})>>)],
   User |->
     [id |-> Declared(<<>>),
      name |-> Declared(<<>>)],
   Extra |->
     [runtime |-> FieldDef(FALSE, FALSE, <<>>),
      bare |-> FieldDef(TRUE, FALSE, <<>>),
      twice |-> Declared(<<DirectiveNode("auth", {<<"role", "ADMIN">>}),
                           DirectiveNode("auth", {<<"role", "USER">>})>>)]]

\* directive @auth(role: Role!) on FIELD_DEFINITION
\* directive @uppercase on FIELD_DEFINITION
ArgDef(name, type, nonNull, hasDefault, default) ==
  [name |-> name, type |-> type, nonNull |-> nonNull,
   hasDefault |-> hasDefault, default |-> default]

DirectiveDefs ==
  [auth |-> <<ArgDef("role", "Role", TRUE, FALSE, "")>>,
   uppercase |-> <<>>]

\* enum Role { USER ADMIN }
EnumValues == [Role |-> {"USER", "ADMIN"}]

\* --------------------------------------------------------- getDirective
Found(node) == [kind |-> "node", node |-> node]
NotFound == [kind |-> "null", node |-> NoNode]
TypeError == [kind |-> "TypeError", node |-> NoNode]

\* variant: the name is not compared
FindDirectiveAnyName(dirs, name) ==
  IF dirs = <<>> THEN NotFound ELSE Found(dirs[1])

\* directives.find((d) => d.name.value === name): the first match
FindDirective(dirs, name) ==
  LET hits == {i \in 1..Len(dirs) : dirs[i].name = name}
  IN IF hits = {} THEN NotFound
     ELSE Found(dirs[CHOOSE i \in hits : \A j \in hits : i <= j])

\* variant: looks the directive up on every field of the parent type
getDirectiveOfType(info, name) ==
  IF info.parentType \notin DOMAIN SchemaTypeMap
    THEN TypeError
  ELSE LET fields == SchemaTypeMap[info.parentType]
           carriers == {f \in DOMAIN fields :
                          FindDirective(fields[f].directives, name).kind = "node"}
       IN IF carriers = {} THEN NotFound
          ELSE FindDirective(fields[CHOOSE f \in carriers : TRUE].directives, name)

\* info = [parentType, fieldName]; info.schema is the schema above
getDirective(info, name) ==
  IF info.parentType \notin DOMAIN SchemaTypeMap
    THEN TypeError   \* schemaType is undefined: schemaType.getFields() throws
  ELSE LET fields == SchemaTypeMap[info.parentType]
       IN IF info.fieldName \notin DOMAIN fields
            THEN TypeError   \* field is undefined: field.astNode throws
          ELSE LET field == fields[info.fieldName]
               IN IF ~field.astNode \/ ~field.hasDirectives
                    THEN NotFound
                  ELSE FindDirective(field.directives, name)

\* ---------------------------------------------------- getDirectiveValues
Decoded(values) == [ok |-> TRUE, values |-> values]
DecodeError == [ok |-> FALSE, values |-> {}]

\* variant: an omitted non-null argument is left out instead of failing
RECURSIVE CoerceArgsLenient(_, _, _)
CoerceArgsLenient(argDefs, supplied, acc) ==
  IF argDefs = <<>> THEN Decoded(acc)
  ELSE LET a == Head(argDefs)
           given == \E p \in supplied : p[1] = a.name
           v == (CHOOSE p \in supplied : p[1] = a.name)[2]
       IN IF ~given
            THEN CoerceArgsLenient(Tail(argDefs), supplied,
                   IF a.hasDefault THEN acc \cup {<<a.name, a.default>>}
                                   ELSE acc)
          ELSE IF v \notin EnumValues[a.type] THEN DecodeError
          ELSE CoerceArgsLenient(Tail(argDefs), supplied,
                                 acc \cup {<<a.name, v>>})

\* getArgumentValues over the definition's arguments, in declared order:
\* an argument the annotation omits takes its default, fails when it is
\* non-null without default, and is left out otherwise; a supplied enum
\* literal must be one of the enum's values.
RECURSIVE CoerceArgs(_, _, _)
CoerceArgs(argDefs, supplied, acc) ==
  IF argDefs = <<>> THEN Decoded(acc)
  ELSE LET a == Head(argDefs)
           given == \E p \in supplied : p[1] = a.name
           v == (CHOOSE p \in supplied : p[1] = a.name)[2]
       IN IF ~given
            THEN IF a.hasDefault
                   THEN CoerceArgs(Tail(argDefs), supplied,
                                   acc \cup {<<a.name, a.default>>})
                 ELSE IF a.nonNull THEN DecodeError
                 ELSE CoerceArgs(Tail(argDefs), supplied, acc)
          ELSE IF v \notin EnumValues[a.type] THEN DecodeError
          ELSE CoerceArgs(Tail(argDefs), supplied, acc \cup {<<a.name, v>>})

\* variant: the arguments are decoded against the @auth definition
getDirectiveValuesOfAuth(name, directiveNode) ==
  CoerceArgs(DirectiveDefs["auth"], directiveNode.arguments, {})

\* getDirectiveValues(directive, {directives: [directiveNode]}, variables)
\* || {}: the node is always found in the one-element list
getDirectiveValues(name, directiveNode) ==
  CoerceArgs(DirectiveDefs[name], directiveNode.arguments, {})

\* -------------------------------------------------------- registrations
\* definitions of each registration's schema fragment, in source order
requiresAuthDirective ==
  [schema |-> <<[kind |-> "EnumTypeDefinition", name |-> "Role"],
                [kind |-> "DirectiveDefinition", name |-> "auth"]>>,
   validation |-> TRUE, transformation |-> FALSE]

uppercaseDirective ==
  [schema |-> <<[kind |-> "DirectiveDefinition", name |-> "uppercase"]>>,
   validation |-> FALSE, transformation |-> TRUE]

\* plugins: [useRedwoodDirectives(requiresAuthDirective),
\*           useRedwoodDirectives(uppercaseDirective)]
Plugins == <<requiresAuthDirective, uppercaseDirective>>

\* gqlParse(schema).definitions.find(v => v.kind === "DirectiveDefinition")
\*   .name.value
directiveName(redwoodDirective) ==
  LET defs == redwoodDirective.schema
      hits == {i \in 1..Len(defs) : defs[i].kind = "DirectiveDefinition"}
  IN defs[CHOOSE i \in hits : \A j \in hits : i <= j].name

OopsGoAway == "Oops, go away!"
RoleMessage(role) ==
  "You don't have the required role '" \o role \o "' for this field!"

\* variant: the test on currentUser is inverted
authValidationInverted(contextValue, directiveArgs) ==
  IF Truthy(Prop(contextValue, "currentUser"))
    THEN OopsGoAway
    ELSE ""

\* requiresAuthDirective.validation(args, directiveArgs): "" when it
\* returns, the Error's message when it throws.  The second branch reads
\* contextValue.correntUser, as the source spells it.
authValidation(contextValue, directiveArgs) ==
  IF ~Truthy(Prop(contextValue, "currentUser"))
    THEN OopsGoAway
  ELSE IF /\ Truthy(Prop(contextValue, "correntUser"))
          /\ Prop(contextValue, "correntUser").val[3]
               # Prop(directiveArgs, "role")
    THEN RoleMessage(Prop(directiveArgs, "role"))
  ELSE ""

\* redwoodDirective.validation(executionArgs, directiveArgs, payload)
validation(p, contextValue, directiveArgs) ==
  IF directiveName(Plugins[p]) = "auth"
    THEN authValidation(contextValue, directiveArgs)
    ELSE ""

\* variant: the trailing `return result` is missing
uppercaseTransformationNoFallthrough(result) ==
  IF Truthy(result) /\ result.type = "string"
    THEN Str(toUpperCase(result.val))
    ELSE Undefined

\* uppercaseDirective.transformation(args, directiveArgs, params, result)
uppercaseTransformation(result) ==
  IF Truthy(result) /\ result.type = "string"
    THEN Str(toUpperCase(result.val))
    ELSE result

\* redwoodDirective.transformation(executionArgs, directiveArgs, payload,
\* result)
transformation(p, result) ==
  IF directiveName(Plugins[p]) = "uppercase"
    THEN uppercaseTransformation(result)
    ELSE result

\* ------------------------------------------------------------ resolvers
Hi == Str(<<"H", "i">>)
Dotan == Str(<<"d", "o", "t", "a", "n">>)
Secret == Str(<<"1", "2", "3", "4", "5", "6">>)

\* values a resolver of the generic field may return
SampleValues ==
  {Str(<<>>), Null, Undefined, Num(<<"7">>), User("USER"),
   Str(<<"D", "o", "1">>)}

\* resolvers.Query: the value(s) the field's resolver returns
ResolverResults(field, context) ==
  CASE field = "simple" -> {Hi}
    [] field = "secretPassword" -> {Secret}
    [] field = "testUpper" -> {Dotan}
    [] field = "me" -> {Prop(context, "currentUser")}
    [] field = "anyUpper" -> SampleValues
    [] OTHER -> {Hi}

\* fields of Query the host engine resolves
HostFields == DOMAIN SchemaTypeMap["Query"]

\* contextValue of an execution: {} or {currentUser: {id, name, role}}
Contexts == {{}, {<<"currentUser", User("USER")>>}}

VARIABLES
  contextValue,   \* executionArgs.contextValue of the execution
  schemaDirectives, \* names of the directives executionArgs.schema defines
  pc,             \* per field resolution: position in the wrapped resolver
  fieldName,      \* per field resolution: info.fieldName
  hookIdx,        \* per field resolution: plugin whose hook runs next
  directiveArgs,  \* per field resolution: directiveArgs of the suspended hook
  afterCalls,     \* per field resolution: after-resolver functions returned
  result,         \* per field resolution: the result slot setResult writes
  log,            \* per field resolution: calls made so far (history)
  outcome,        \* per field resolution: what the caller observes
  tree,           \* validateDirectives: schemaDocumentNode
  directivesToEnforce,
  typesToCheck,
  vpc,            \* validateDirectives: position of the call
  vidx,           \* validateDirectives: definition visit() is at
  vresult,        \* validateDirectives: result array
  returned,       \* validateDirectives: values returned by the calls so far
  linfo,          \* getDirective: info argument
  lname,          \* getDirective: name argument
  lout,           \* getDirective: outcome of the call, "pending" before it
  hookOf,         \* after-resolver hook alone: the registration it closes over
  hookResult,     \* after-resolver hook alone: result handed to the hook
  hookSlot        \* after-resolver hook alone: calls made and value stored

\* variant: the definition is taken to exist
HasDirectiveDefAssumed(name) == TRUE

\* executionArgs.schema.getDirective(name) finds a definition
HasDirectiveDef(name) == name \in schemaDirectives

\* schemas an execution may run on: the schema with both definitions, and
\* one built without validation whose @auth annotations have no definition
ExecutionSchemas == {DOMAIN DirectiveDefs, DOMAIN DirectiveDefs \ {"auth"}}

pipelineVars ==
  <<contextValue, schemaDirectives, pc, fieldName, hookIdx, directiveArgs, afterCalls, result,
    log, outcome>>
validatorVars ==
  <<tree, directivesToEnforce, typesToCheck, vpc, vidx, vresult, returned>>
locatorVars == <<linfo, lname, lout>>
hookVars == <<hookOf, hookResult, hookSlot>>
vars == <<pipelineVars, validatorVars, locatorVars, hookVars>>

Event(ev, p, value, dargs) ==
  [ev |-> ev, plugin |-> p, value |-> value, dargs |-> dargs]

NoOutcome == [status |-> "none", value |-> Undefined, message |-> "", field |-> ""]
Value(v) == [status |-> "ok", value |-> v, message |-> "", field |-> ""]
FieldError(f, message) ==
  [status |-> "error", value |-> Undefined, message |-> message, field |-> f]

ArgumentMissing == "Argument of required type was not provided."
CannotRead == "Cannot read properties of undefined"

PipelineIdle ==
  /\ pc = [r \in Res |-> "idle"]
  /\ fieldName = [r \in Res |-> ""]
  /\ hookIdx = [r \in Res |-> 1]
  /\ directiveArgs = [r \in Res |-> {}]
  /\ afterCalls = [r \in Res |-> <<>>]
  /\ result = [r \in Res |-> Undefined]
  /\ log = [r \in Res |-> <<>>]
  /\ outcome = [r \in Res |-> NoOutcome]

ValidatorIdle ==
  /\ tree = <<>>
  /\ directivesToEnforce = {}
  /\ typesToCheck = {}
  /\ vpc = "off"
  /\ vidx = 1
  /\ vresult = <<>>
  /\ returned = <<>>

LocatorIdle ==
  /\ linfo = [parentType |-> "", fieldName |-> ""]
  /\ lname = ""
  /\ lout = [kind |-> "off", node |-> NoNode]

\* a registration the RedwoodDirective type admits: validation present or
\* not; transformation absent, returning a value, or returning a promise
Registration(v, t, body) == [validation |-> v, transformation |-> t, body |-> body]

HookIdle ==
  /\ hookOf = Registration(FALSE, "none", "identity")
  /\ hookResult = Undefined
  /\ hookSlot = [pc |-> "off", transformed |-> FALSE, setResult |-> FALSE,
                 value |-> Undefined]

\* getEnveloped({}) and execute({document, schema, contextValue})
Init ==
  /\ contextValue \in Contexts
  /\ schemaDirectives \in ExecutionSchemas
  /\ PipelineIdle
  /\ ValidatorIdle
  /\ LocatorIdle
  /\ HookIdle

\* the host calls the wrapped resolver of a field; the fields of a
\* selection set are started in order
StartResolution(r) ==
  /\ pc[r] = "idle"
  /\ \A q \in Res : q < r => pc[q] # "idle"
  /\ \E f \in HostFields : fieldName' = [fieldName EXCEPT ![r] = f]
  /\ pc' = [pc EXCEPT ![r] = "hooks"]
  /\ UNCHANGED <<contextValue, schemaDirectives, hookIdx, directiveArgs, afterCalls, result,
                 log, outcome, validatorVars, locatorVars, hookVars>>

\* variant: a rejected hook fails every field resolution of the execution
FailAll(r, message) ==
  /\ pc' = [x \in Res |-> "error"]
  /\ outcome' = [x \in Res |-> FieldError(fieldName[r], message)]

\* the hook's promise rejects: the wrapped resolver throws
Fail(r, message) ==
  /\ pc' = [pc EXCEPT ![r] = "error"]
  /\ outcome' = [outcome EXCEPT ![r] = FieldError(fieldName[r], message)]

\* the hook's promise resolves: afterFn && afterCalls.push(afterFn)
Proceed(r, pushed) ==
  /\ pc' = [pc EXCEPT ![r] = "hooks"]
  /\ hookIdx' = [hookIdx EXCEPT ![r] = @ + 1]
  /\ afterCalls' = [afterCalls EXCEPT ![r] = @ \o pushed]
  /\ UNCHANGED outcome

\* variant: the validation is called but not awaited
onResolverCalledNoAwait(r) ==
  /\ pc[r] = "hooks"
  /\ hookIdx[r] <= Len(Plugins)
  /\ LET p == hookIdx[r]
         info == [parentType |-> "Query", fieldName |-> fieldName[r]]
         directiveNode == getDirective(info, directiveName(Plugins[p]))
         decoded == getDirectiveValues(directiveNode.node.name,
                                       directiveNode.node)
         located == <<Event("located", p, Undefined, {})>>
         defined == located \o <<Event("defined", p, Undefined, {})>>
         decodedOk == defined \o <<Event("decoded", p, Undefined, decoded.values)>>
     IN IF directiveNode.kind = "TypeError"
          THEN /\ Fail(r, CannotRead)
               /\ UNCHANGED <<hookIdx, directiveArgs, afterCalls, log>>
        ELSE IF directiveNode.kind = "null"
          THEN /\ Proceed(r, <<>>)
               /\ UNCHANGED <<directiveArgs, log>>
        ELSE IF ~HasDirectiveDef(directiveNode.node.name)
          THEN /\ Proceed(r, <<>>)
               /\ log' = [log EXCEPT ![r] = @ \o located]
               /\ UNCHANGED directiveArgs
        ELSE IF ~decoded.ok
          THEN /\ Fail(r, ArgumentMissing)
               /\ log' = [log EXCEPT ![r] =
                    @ \o defined \o <<Event("decodeFailed", p, Undefined, {})>>]
               /\ UNCHANGED <<hookIdx, directiveArgs, afterCalls>>
        ELSE /\ Proceed(r, <<[plugin |-> p, directiveArgs |-> decoded.values]>>)
             /\ directiveArgs' = [directiveArgs EXCEPT ![r] = decoded.values]
             /\ log' = [log EXCEPT ![r] =
                  IF Plugins[p].validation
                    THEN @ \o decodedOk
                           \o <<Event("validation", p, Undefined,
                                      decoded.values)>>
                    ELSE @ \o decodedOk]
  /\ UNCHANGED <<contextValue, schemaDirectives, fieldName, result,
                 validatorVars, locatorVars, hookVars>>

\* onResolverCalled of plugin hookIdx[r], up to its await (or its return)
onResolverCalled(r) ==
  /\ pc[r] = "hooks"
  /\ hookIdx[r] <= Len(Plugins)
  /\ LET p == hookIdx[r]
         info == [parentType |-> "Query", fieldName |-> fieldName[r]]
         directiveNode == getDirective(info, directiveName(Plugins[p]))
         decoded == getDirectiveValues(directiveNode.node.name,
                                       directiveNode.node)
         located == <<Event("located", p, Undefined, {})>>
         defined == located \o <<Event("defined", p, Undefined, {})>>
         decodedOk == defined \o <<Event("decoded", p, Undefined, decoded.values)>>
     IN IF directiveNode.kind = "TypeError"
          THEN /\ Fail(r, CannotRead)
               /\ UNCHANGED <<hookIdx, directiveArgs, afterCalls, log>>
        ELSE IF directiveNode.kind = "null"
          THEN /\ Proceed(r, <<>>)
               /\ UNCHANGED <<directiveArgs, log>>
        ELSE IF ~HasDirectiveDef(directiveNode.node.name)
          THEN /\ Proceed(r, <<>>)
               /\ log' = [log EXCEPT ![r] = @ \o located]
               /\ UNCHANGED directiveArgs
        ELSE IF ~decoded.ok
          THEN /\ Fail(r, ArgumentMissing)
               /\ log' = [log EXCEPT ![r] =
                    @ \o defined \o <<Event("decodeFailed", p, Undefined, {})>>]
               /\ UNCHANGED <<hookIdx, directiveArgs, afterCalls>>
        ELSE IF Plugins[p].validation
          THEN /\ pc' = [pc EXCEPT ![r] = "validating"]
               /\ directiveArgs' = [directiveArgs EXCEPT ![r] = decoded.values]
               /\ log' = [log EXCEPT ![r] =
                    @ \o decodedOk
                      \o <<Event("validation", p, Undefined, decoded.values)>>]
               /\ UNCHANGED <<hookIdx, afterCalls, outcome>>
        ELSE /\ Proceed(r, <<[plugin |-> p, directiveArgs |-> decoded.values]>>)
             /\ directiveArgs' = [directiveArgs EXCEPT ![r] = decoded.values]
             /\ log' = [log EXCEPT ![r] = @ \o decodedOk]
  /\ UNCHANGED <<contextValue, schemaDirectives, fieldName, result,
                 validatorVars, locatorVars, hookVars>>

\* variant: a rejection of the validation is caught and dropped
validationSettledSwallowed(r) ==
  /\ pc[r] = "validating"
  /\ LET p == hookIdx[r]
         message == validation(p, contextValue, directiveArgs[r])
     IN /\ Proceed(r, <<[plugin |-> p, directiveArgs |-> directiveArgs[r]]>>)
        /\ log' = [log EXCEPT ![r] =
             Append(@, Event(IF message # "" THEN "rejected" ELSE "validated",
                             p, Undefined, directiveArgs[r]))]
  /\ UNCHANGED <<contextValue, schemaDirectives, fieldName, directiveArgs, result,
                 validatorVars, locatorVars, hookVars>>

\* await redwoodDirective.validation(...) settles; the hook then returns
\* the after-resolver function, or its promise rejects
validationSettled(r) ==
  /\ pc[r] = "validating"
  /\ LET p == hookIdx[r]
         message == validation(p, contextValue, directiveArgs[r])
     IN IF message # ""
          THEN /\ Fail(r, message)
               /\ log' = [log EXCEPT ![r] =
                    Append(@, Event("rejected", p, Undefined, directiveArgs[r]))]
               /\ UNCHANGED <<hookIdx, afterCalls>>
          ELSE /\ Proceed(r, <<[plugin |-> p, directiveArgs |-> directiveArgs[r]]>>)
               /\ log' = [log EXCEPT ![r] =
                    Append(@, Event("validated", p, Undefined, directiveArgs[r]))]
  /\ UNCHANGED <<contextValue, schemaDirectives, fieldName, directiveArgs, result,
                 validatorVars, locatorVars, hookVars>>

\* variant: the resolver is called once the first hook has returned
callResolverEarly(r) ==
  /\ pc[r] = "hooks"
  /\ hookIdx[r] > 1
  /\ \E v \in ResolverResults(fieldName[r], contextValue) :
       /\ result' = [result EXCEPT ![r] = v]
       /\ log' = [log EXCEPT ![r] = Append(@, Event("resolver", 0, v, {}))]
  /\ pc' = [pc EXCEPT ![r] = "after"]
  /\ UNCHANGED <<contextValue, schemaDirectives, fieldName, hookIdx,
                 directiveArgs, afterCalls, outcome, validatorVars,
                 locatorVars, hookVars>>

\* every hook has returned: the host calls the field's resolver
callResolver(r) ==
  /\ pc[r] = "hooks"
  /\ hookIdx[r] > Len(Plugins)
  /\ \E v \in ResolverResults(fieldName[r], contextValue) :
       /\ result' = [result EXCEPT ![r] = v]
       /\ log' = [log EXCEPT ![r] = Append(@, Event("resolver", 0, v, {}))]
  /\ pc' = [pc EXCEPT ![r] = "after"]
  /\ UNCHANGED <<contextValue, schemaDirectives, fieldName, hookIdx, directiveArgs, afterCalls,
                 outcome, validatorVars, locatorVars, hookVars>>

\* variant: the transformation runs but setResult is not called
afterFnNoSet(call, res) ==
  IF Plugins[call.plugin].transformation
    THEN [result |-> res,
          events |-> <<Event("transformation", call.plugin, res,
                             call.directiveArgs)>>]
    ELSE [result |-> res, events |-> <<>>]

\* variant: the transformation is applied a second time to its own output
afterFnRetransform(call, res) ==
  IF Plugins[call.plugin].transformation
    THEN LET once == transformation(call.plugin, res)
             modifiedValue == transformation(call.plugin, once)
         IN [result |-> modifiedValue,
             events |-> <<Event("transformation", call.plugin, res,
                                call.directiveArgs),
                          Event("transformation", call.plugin, once,
                                call.directiveArgs),
                          Event("setResult", call.plugin, modifiedValue,
                                call.directiveArgs)>>]
    ELSE [result |-> res, events |-> <<>>]

\* variant: setResult is called only when the value changed
afterFnSetIfChanged(call, res) ==
  IF Plugins[call.plugin].transformation
    THEN LET modifiedValue == transformation(call.plugin, res)
         IN [result |-> modifiedValue,
             events |-> <<Event("transformation", call.plugin, res,
                                call.directiveArgs)>>
                        \o (IF modifiedValue # res
                              THEN <<Event("setResult", call.plugin,
                                           modifiedValue, call.directiveArgs)>>
                              ELSE <<>>)]
    ELSE [result |-> res, events |-> <<>>]

\* ({ result, setResult }) => { ... } of one registration: the new result
\* slot and the calls it made
afterFn(call, res) ==
  IF Plugins[call.plugin].transformation
    THEN LET modifiedValue == transformation(call.plugin, res)
         IN [result |-> modifiedValue,
             events |-> <<Event("transformation", call.plugin, res,
                                call.directiveArgs),
                          Event("setResult", call.plugin, modifiedValue,
                                call.directiveArgs)>>]
    ELSE [result |-> res, events |-> <<>>]

\* the host runs the after-resolver functions in order, synchronously
RECURSIVE RunAfterCalls(_, _, _)
RunAfterCalls(calls, res, events) ==
  IF calls = <<>> THEN [result |-> res, events |-> events]
  ELSE LET step == afterFn(Head(calls), res)
       IN RunAfterCalls(Tail(calls), step.result, events \o step.events)

\* the resolver's result is available: after-resolver functions run and
\* the wrapped resolver returns the result slot
afterResolver(r) ==
  /\ pc[r] = "after"
  /\ LET done == RunAfterCalls(afterCalls[r], result[r], <<>>)
     IN /\ result' = [result EXCEPT ![r] = done.result]
        /\ log' = [log EXCEPT ![r] = @ \o done.events]
        /\ outcome' = [outcome EXCEPT ![r] = Value(done.result)]
  /\ pc' = [pc EXCEPT ![r] = "done"]
  /\ UNCHANGED <<contextValue, schemaDirectives, fieldName, hookIdx, directiveArgs, afterCalls,
                 validatorVars, locatorVars, hookVars>>

Next ==
  \/ \E r \in Res : StartResolution(r)
  \/ \E r \in Res : onResolverCalled(r)
  \/ \E r \in Res : validationSettled(r)
  \/ \E r \in Res : callResolver(r)
  \/ \E r \in Res : afterResolver(r)

Spec == Init /\ [][Next]_vars

\* one field resolution on its own
NextSingle ==
  \/ StartResolution(1)
  \/ onResolverCalled(1)
  \/ validationSettled(1)
  \/ callResolver(1)
  \/ afterResolver(1)

\* the event loop runs every continuation that is ready: hooks, awaited
\* validations, resolvers and after-resolver functions all terminate
FairSpec ==
  /\ Init
  /\ [][NextSingle]_vars
  /\ WF_vars(onResolverCalled(1))
  /\ WF_vars(validationSettled(1))
  /\ WF_vars(callResolver(1))
  /\ WF_vars(afterResolver(1))

\* ============================================================ validator
\* validateDirectives(schemaDocumentNode, directivesToEnforce, typesToCheck)

FieldNode(name, directives) == [name |-> name, directives |-> directives]
TypeNode(name, fields) ==
  [kind |-> "ObjectTypeDefinition", name |-> name, fields |-> fields]
DirectiveDefNode(name) ==
  [kind |-> "DirectiveDefinition", name |-> name, fields |-> <<>>]

\* testSchema of the validator example
testSchema ==
  <<DirectiveDefNode("auth"),
    DirectiveDefNode("noAuth"),
    TypeNode("Query", <<FieldNode("noAuthError", <<>>),
                        FieldNode("version", <<"noAuth">>),
                        FieldNode("me", <<"auth">>),
                        FieldNode("test", <<>>)>>),
    TypeNode("User", <<FieldNode("id", <<>>), FieldNode("name", <<>>)>>)>>

\* Query {a, b @noAuth, c @auth}
ExampleTree ==
  <<TypeNode("Query", <<FieldNode("a", <<>>),
                        FieldNode("b", <<"noAuth">>),
                        FieldNode("c", <<"auth">>)>>)>>

\* generated declaration trees: at most MaxTypes definitions holding at
\* most MaxFields field declarations in all
FieldNames == <<"a", "b", "c", "d">>
DirectiveLists == {<<>>, <<"other">>, <<"other", "auth">>}
TypeNames == {"Query", "User"}

RECURSIVE FieldLists(_)
FieldLists(k) ==
  IF k = 0 THEN {<<>>}
  ELSE {Append(fs, FieldNode(FieldNames[k], ds)) :
          fs \in FieldLists(k - 1), ds \in DirectiveLists}

RECURSIVE TreesWithin(_, _)
TreesWithin(n, budget) ==
  IF n = 0 THEN {<<>>}
  ELSE {<<>>}
       \cup {<<DirectiveDefNode("auth")>> \o t : t \in TreesWithin(n - 1, budget)}
       \cup UNION {UNION {{<<TypeNode(T, fs)>> \o t :
                             fs \in FieldLists(k),
                             t \in TreesWithin(n - 1, budget - k)} :
                          T \in TypeNames} :
                   k \in 0..budget}

Trees == TreesWithin(MaxTypes, MaxFields) \cup {testSchema, ExampleTree}

\* [directivesToEnforce, typesToCheck] of a call
Parameters ==
  {<<{"noAuth", "auth"}, {"Query", "Mutation"}>>,
   <<{"auth", "noAuth"}, {"Query"}>>,
   <<{"other"}, {"User"}>>}

\* variant: any directive on the field counts
hasAnyDirective(directives, required) == directives # <<>>

\* field.directives?.some(d => directivesToEnforce.includes(d.name.value))
hasDirective(directives, required) ==
  \E i \in 1..Len(directives) : directives[i] \in required

\* `${typeNode.name.value}.${field.name.value}`
QualifiedName(typeName, field) == typeName \o "." \o field

\* for (const field of typeNode.fields || []) { ... result.push(...) }
RECURSIVE pushMissing(_, _, _, _)
pushMissing(acc, typeName, fields, required) ==
  IF fields = <<>> THEN acc
  ELSE pushMissing(
         IF hasDirective(Head(fields).directives, required)
           THEN acc
           ELSE Append(acc, QualifiedName(typeName, Head(fields).name)),
         typeName, Tail(fields), required)

InitValidate ==
  /\ contextValue = {}
  /\ schemaDirectives = DOMAIN DirectiveDefs
  /\ PipelineIdle
  /\ LocatorIdle
  /\ HookIdle
  /\ tree \in Trees
  /\ \E ps \in Parameters :
       /\ directivesToEnforce = ps[1]
       /\ typesToCheck = ps[2]
  /\ vpc = "ready"
  /\ vidx = 1
  /\ vresult = <<>>
  /\ returned = <<>>

\* variant: the result array outlives the call
validateStartKeep ==
  /\ vpc = "ready"
  /\ Len(returned) < MaxCalls
  /\ vidx' = 1
  /\ vpc' = "visiting"
  /\ UNCHANGED <<tree, directivesToEnforce, typesToCheck, vresult, returned,
                 pipelineVars, locatorVars, hookVars>>

\* const result: string[] = []; visit(schemaDocumentNode, ...) begins
validateStart ==
  /\ vpc = "ready"
  /\ Len(returned) < MaxCalls
  /\ vresult' = <<>>
  /\ vidx' = 1
  /\ vpc' = "visiting"
  /\ UNCHANGED <<tree, directivesToEnforce, typesToCheck, returned,
                 pipelineVars, locatorVars, hookVars>>

\* visit() reaches the next definition; ObjectTypeDefinition(typeNode) runs
\* when it is an object type
visitNode ==
  /\ vpc = "visiting"
  /\ vidx <= Len(tree)
  /\ LET typeNode == tree[vidx]
     IN vresult' =
          IF /\ typeNode.kind = "ObjectTypeDefinition"
             /\ typeNode.name \in typesToCheck
            THEN pushMissing(vresult, typeNode.name, typeNode.fields,
                             directivesToEnforce)
            ELSE vresult
  /\ vidx' = vidx + 1
  /\ UNCHANGED <<tree, directivesToEnforce, typesToCheck, vpc, returned,
                 pipelineVars, locatorVars, hookVars>>

\* return result
validateReturn ==
  /\ vpc = "visiting"
  /\ vidx > Len(tree)
  /\ returned' = Append(returned, vresult)
  /\ vpc' = "ready"
  /\ UNCHANGED <<tree, directivesToEnforce, typesToCheck, vidx, vresult,
                 pipelineVars, locatorVars, hookVars>>

NextValidate ==
  \/ validateStart
  \/ visitNode
  \/ validateReturn

SpecValidate == InitValidate /\ [][NextValidate]_vars

\* ============================================================== locator
\* getDirective called on any info and name

LocatorTypes == DOMAIN SchemaTypeMap \cup {"Ghost"}
LocatorFields ==
  UNION {DOMAIN SchemaTypeMap[T] : T \in DOMAIN SchemaTypeMap} \cup {"ghost"}
LocatorNames == {"auth", "uppercase", "skip"}

InitLocate ==
  /\ contextValue = {}
  /\ schemaDirectives = DOMAIN DirectiveDefs
  /\ PipelineIdle
  /\ ValidatorIdle
  /\ HookIdle
  /\ linfo \in [parentType : LocatorTypes, fieldName : LocatorFields]
  /\ lname \in LocatorNames
  /\ lout = [kind |-> "pending", node |-> NoNode]

locate ==
  /\ lout.kind = "pending"
  /\ lout' = getDirective(linfo, lname)
  /\ UNCHANGED <<linfo, lname, pipelineVars, validatorVars, hookVars>>

NextLocate == locate

SpecLocate == InitLocate /\ [][NextLocate]_vars

\* ================================================== after-resolver hook
\* ({ result, setResult }) => { ... } closed over any registration the
\* RedwoodDirective type admits

\* a pending promise of the value v
Promise(v) == [type |-> "promise", val |-> <<v.type>> \o v.val]

AdmittedRegistrations ==
  {Registration(v, t, body) :
     v \in BOOLEAN, t \in {"none", "sync", "async"},
     body \in {"uppercase", "identity"}}

\* what redwoodDirective.transformation(...) returns: the value, or for a
\* callback returning a promise, the promise
admittedTransformation(redwoodDirective, res) ==
  LET value == IF redwoodDirective.body = "uppercase"
                 THEN uppercaseTransformation(res)
                 ELSE res
  IN IF redwoodDirective.transformation = "async"
       THEN Promise(value)
       ELSE value

InitHook ==
  /\ contextValue = {}
  /\ schemaDirectives = DOMAIN DirectiveDefs
  /\ PipelineIdle
  /\ ValidatorIdle
  /\ LocatorIdle
  /\ hookOf \in AdmittedRegistrations
  /\ hookResult \in SampleValues
  /\ hookSlot = [pc |-> "ready", transformed |-> FALSE, setResult |-> FALSE,
                 value |-> hookResult]

\* the hook runs: if (redwoodDirective.transformation) { const modifiedValue
\* = redwoodDirective.transformation(...); setResult(modifiedValue); }
runHook ==
  /\ hookSlot.pc = "ready"
  /\ hookSlot' =
       IF hookOf.transformation # "none"
         THEN [pc |-> "returned", transformed |-> TRUE, setResult |-> TRUE,
               value |-> admittedTransformation(hookOf, hookResult)]
         ELSE [hookSlot EXCEPT !.pc = "returned"]
  /\ UNCHANGED <<hookOf, hookResult, pipelineVars, validatorVars, locatorVars>>

NextHook == runHook

SpecHook == InitHook /\ [][NextHook]_vars

\* =============================================================== claims
Registrations == 1..Len(Plugins)
Events(r, ev) == {i \in 1..Len(log[r]) : log[r][i].ev = ev}
EventsOf(r, ev, p) == {i \in Events(r, ev) : log[r][i].plugin = p}
Started(r) == pc[r] # "idle"
\* the value the field's resolver returned
ResolverValue(r) == log[r][CHOOSE i \in Events(r, "resolver") : TRUE].value
\* directive annotations of the field being resolved
Annotations(r) == SchemaTypeMap["Query"][fieldName[r]].directives
Carries(r, name) == \E i \in 1..Len(Annotations(r)) : Annotations(r)[i].name = name
AuthPlugin == CHOOSE p \in Registrations : directiveName(Plugins[p]) = "auth"
\* role argument written on the field's @auth annotation
AuthRole(r) == FindDirective(Annotations(r), "auth").node.arguments
CurrentRole == Prop(contextValue, "currentUser").val[3]

\* C1: when a registration's validation callback rejects, the field
\* resolution ends in an error carrying that field's name, the result slot
\* is never written, and that registration neither runs its transformation
\* nor calls setResult.
C1_RejectionEndsInFieldError ==
  \A r \in Res : \A p \in Registrations :
    EventsOf(r, "rejected", p) # {} =>
      /\ pc[r] = "error"
      /\ outcome[r].status = "error"
      /\ outcome[r].field = fieldName[r]
      /\ outcome[r].message # ""
      /\ result[r] = Undefined
      /\ Events(r, "resolver") = {}
      /\ EventsOf(r, "transformation", p) = {}
      /\ EventsOf(r, "setResult", p) = {}

C1_Witness ==
  \E r \in Res :
    /\ fieldName[r] = "secretPassword"
    /\ contextValue = {}
    /\ EventsOf(r, "rejected", AuthPlugin) # {}
    /\ pc[r] = "error"

\* C2: for a field without directive annotations no validation and no
\* transformation runs, setResult is not called, no registration returns an
\* after-resolver function, and the caller observes the resolver's value.
C2_NoDirectiveIsNoOp ==
  \A r \in Res :
    (Started(r) /\ Annotations(r) = <<>>) =>
      /\ \A i \in 1..Len(log[r]) : log[r][i].ev = "resolver"
      /\ afterCalls[r] = <<>>
      /\ pc[r] # "error"
      /\ pc[r] = "done" =>
           /\ Len(log[r]) = 1
           /\ outcome[r] = Value(ResolverValue(r))
           /\ ResolverValue(r) \in ResolverResults(fieldName[r], contextValue)

C2_Witness ==
  \E r \in Res :
    /\ fieldName[r] = "simple"
    /\ pc[r] = "done"
    /\ outcome[r] = Value(Hi)

\* C3: a transformation is invoked only after the resolver returned, with
\* the value the resolver returned, and what it returns is the value the
\* caller observes.
C3_TransformationSeesFinalResult ==
  \A r \in Res : \A i \in Events(r, "transformation") :
    /\ \E j \in Events(r, "resolver") :
         /\ j < i
         /\ log[r][j].value = log[r][i].value
    /\ pc[r] = "done"
    /\ outcome[r] = Value(transformation(log[r][i].plugin, log[r][i].value))

C3_Witness ==
  \E r \in Res :
    /\ fieldName[r] = "testUpper"
    /\ Events(r, "transformation") # {}
    /\ outcome[r] = Value(Str(<<"D", "O", "T", "A", "N">>))

\* C4: the resolver never runs while a validation of the same field
\* resolution is pending: every validation invoked before the resolver has
\* settled successfully before the resolver is called.
C4_ResolverWaitsForValidation ==
  \A r \in Res :
    /\ pc[r] = "validating" => Events(r, "resolver") = {}
    /\ \A i \in Events(r, "resolver") : \A j \in Events(r, "validation") :
         \E k \in EventsOf(r, "validated", log[r][j].plugin) : j < k /\ k < i

C4_Witness ==
  \E r \in Res :
    /\ Events(r, "validation") # {}
    /\ Events(r, "validated") # {}
    /\ Events(r, "resolver") # {}

\* the characters of v are those of res, each uppercased
IsUppercaseOf(v, res) ==
  /\ v.type = "string"
  /\ Len(v.val) = Len(res.val)
  /\ \A k \in 1..Len(res.val) : v.val[k] = UpperChar(res.val[k])

\* C5: the final value of a field carrying @uppercase is the uppercased
\* resolver result when that result is a string ("dotan" gives "DOTAN") and
\* the resolver result itself when it is not a string.
C5_UppercaseResult ==
  \A r \in Res :
    (pc[r] = "done" /\ Carries(r, "uppercase")) =>
      /\ outcome[r].status = "ok"
      /\ IF ResolverValue(r).type = "string"
           THEN IsUppercaseOf(outcome[r].value, ResolverValue(r))
           ELSE outcome[r].value = ResolverValue(r)
      /\ ResolverValue(r) = Dotan =>
           outcome[r].value = Str(<<"D", "O", "T", "A", "N">>)

C5_Witness ==
  \E r1, r2 \in Res :
    /\ fieldName[r1] = "testUpper"
    /\ outcome[r1] = Value(Str(<<"D", "O", "T", "A", "N">>))
    /\ fieldName[r2] = "anyUpper"
    /\ pc[r2] = "done"
    /\ ResolverValue(r2) = Num(<<"7">>)
    /\ outcome[r2] = Value(Num(<<"7">>))

\* the context's user has the role the field's @auth annotation names
RoleMatches(r) ==
  /\ Carries(r, "auth")
  /\ Truthy(Prop(contextValue, "currentUser"))
  /\ AuthRole(r) = {<<"role", CurrentRole>>}

\* C6: for a field with @auth(role: R) resolved with a currentUser of role
\* R the validation does not reject, the resolution does not fail, the
\* @auth registration never calls setResult, and a field carrying only
\* @auth yields exactly the resolver's value.
C6_MatchingRolePassesThrough ==
  \A r \in Res :
    (Started(r) /\ RoleMatches(r)) =>
      /\ pc[r] # "error"
      /\ EventsOf(r, "rejected", AuthPlugin) = {}
      /\ EventsOf(r, "setResult", AuthPlugin) = {}
      /\ (pc[r] = "done" /\ ~Carries(r, "uppercase")) =>
           outcome[r] = Value(ResolverValue(r))

C6_Witness ==
  \E r \in Res :
    /\ fieldName[r] = "me"
    /\ contextValue = {<<"currentUser", User("USER")>>}
    /\ EventsOf(r, "validated", AuthPlugin) # {}
    /\ pc[r] = "done"
    /\ outcome[r] = Value(User("USER"))

\* positions <<i, j>> of the fields validateDirectives must report: field j
\* of the object type at position i, the type named in typesToCheck and no
\* directive of the field named in directivesToEnforce
Missing ==
  UNION {{<<i, j>> : j \in
            {k \in 1..Len(tree[i].fields) :
               /\ tree[i].kind = "ObjectTypeDefinition"
               /\ tree[i].name \in typesToCheck
               /\ \A d \in 1..Len(tree[i].fields[k].directives) :
                    tree[i].fields[k].directives[d] \notin directivesToEnforce}} :
         i \in 1..Len(tree)}

\* type position first, field declaration order second
Earlier(a, b) == a[1] < b[1] \/ (a[1] = b[1] /\ a[2] < b[2])

\* the reported fields as "Type.field", in that order
ExpectedViolations ==
  [k \in 1..Cardinality(Missing) |->
     LET pos == CHOOSE q \in Missing :
                  Cardinality({o \in Missing : Earlier(o, q)}) = k - 1
     IN tree[pos[1]].name \o "." \o tree[pos[1]].fields[pos[2]].name]

C8_PureAndIdempotent ==
  /\ [](\A c, d \in 1..Len(returned) : returned[c] = returned[d])
  /\ [][/\ tree' = tree
        /\ directivesToEnforce' = directivesToEnforce
        /\ typesToCheck' = typesToCheck]_vars

C8_Witness ==
  /\ tree = testSchema
  /\ Len(returned) >= 2
  /\ returned[1] = <<"Query.noAuthError", "Query.test">>
  /\ returned[2] = returned[1]

\* the field named by linfo, when its parent type and the field exist
LocatedField == SchemaTypeMap[linfo.parentType][linfo.fieldName]
LocatorSoftCase ==
  \/ linfo.parentType \notin DOMAIN SchemaTypeMap
  \/ linfo.fieldName \notin DOMAIN SchemaTypeMap[linfo.parentType]
  \/ ~LocatedField.astNode

\* C9: getDirective returns null without raising when the parent type is
\* absent from the schema, the field is absent from the type, or the field
\* has no declaration node; otherwise it returns the first annotation of the
\* field whose name matches.
C9_LocatorFailsSoftly ==
  lout.kind \notin {"pending", "off"} =>
    IF LocatorSoftCase
      THEN lout = NotFound
      ELSE /\ lout.kind # "TypeError"
           /\ lout.kind = "null" =>
                \A i \in 1..Len(LocatedField.directives) :
                  LocatedField.directives[i].name # lname
           /\ lout.kind = "node" =>
                \E i \in 1..Len(LocatedField.directives) :
                  /\ LocatedField.directives[i] = lout.node
                  /\ lout.node.name = lname
                  /\ \A j \in 1..(i - 1) :
                       LocatedField.directives[j].name # lname

\* C10: when the context's currentUser has a role other than the role of
\* the field's @auth annotation, the @auth validation rejects with the
\* "You don't have the required role" error and the field ends in error.
C10_RoleMismatchRejected ==
  \A r \in Res :
    (/\ Started(r)
     /\ Carries(r, "auth")
     /\ Truthy(Prop(contextValue, "currentUser"))
     /\ "auth" \in schemaDirectives
     /\ \E a \in AuthRole(r) : a[1] = "role"
     /\ AuthRole(r) # {<<"role", CurrentRole>>}
     /\ pc[r] \notin {"hooks", "validating"}) =>
       /\ pc[r] = "error"
       /\ outcome[r] =
            FieldError(fieldName[r], RoleMessage(Prop(AuthRole(r), "role")))

\* ------------------------------------------------------ claims C11..C19
Resolving(r) == fieldName[r] # ""
NameOf(p) == directiveName(Plugins[p])
\* registration p finds its directive on the field, with a definition
Acts(r, p) == Carries(r, NameOf(p)) /\ NameOf(p) \in schemaDirectives
\* what decoding the field's own annotation of registration p gives
OwnDecode(r, p) ==
  getDirectiveValues(NameOf(p), FindDirective(Annotations(r), NameOf(p)).node)
\* registrations whose decode or validation fails on this field alone
Failing(r) ==
  {p \in Registrations :
     /\ Acts(r, p)
     /\ \/ ~OwnDecode(r, p).ok
        \/ /\ Plugins[p].validation
           /\ validation(p, contextValue, OwnDecode(r, p).values) # ""}
FirstFailing(r) == CHOOSE p \in Failing(r) : \A q \in Failing(r) : p <= q
\* the error the field ends in when it is resolved alone
OwnError(r) ==
  FieldError(fieldName[r],
             IF ~OwnDecode(r, FirstFailing(r)).ok
               THEN ArgumentMissing
               ELSE validation(FirstFailing(r), contextValue,
                               OwnDecode(r, FirstFailing(r)).values))
\* the value the field yields when it is resolved alone
OwnValue(r) ==
  LET ts == {p \in Registrations : Acts(r, p) /\ Plugins[p].transformation}
  IN IF ts = {} THEN ResolverValue(r)
     ELSE transformation(CHOOSE p \in ts : TRUE, ResolverValue(r))
CallbackEvents == {"decoded", "validation", "validated", "rejected",
                   "transformation", "setResult"}

\* C11: under every interleaving of sibling field resolutions, each
\* resolution's callbacks get the arguments decoded from its own annotation,
\* it fails only for its own decode failure or validation rejection, and its
\* final value is the one it has when resolved alone.
C11_SiblingsIndependent ==
  \A r \in Res :
    /\ ~Resolving(r) => (pc[r] = "idle" /\ outcome[r] = NoOutcome)
    /\ Resolving(r) =>
         /\ \A p \in Registrations :
              Carries(r, NameOf(p)) =>
                LET own == OwnDecode(r, p).values
                IN \A i \in 1..Len(log[r]) :
                     (log[r][i].plugin = p /\ log[r][i].ev \in CallbackEvents)
                       => log[r][i].dargs = own
         /\ pc[r] = "error" => (Failing(r) # {} /\ outcome[r] = OwnError(r))
         /\ pc[r] = "done" => (Failing(r) = {} /\ outcome[r] = Value(OwnValue(r)))
         /\ pc[r] \notin {"error", "done"} => outcome[r] = NoOutcome

C11_Witness ==
  \E r1, r2 \in Res :
    /\ fieldName[r1] = "secretPassword"
    /\ EventsOf(r1, "rejected", AuthPlugin) # {}
    /\ pc[r1] = "error"
    /\ fieldName[r2] = "testUpper"
    /\ pc[r2] = "done"
    /\ outcome[r2] = Value(Str(<<"D", "O", "T", "A", "N">>))

\* C12: a registration runs its callbacks only on fields carrying its own
\* directive name: no validation on a field with only @uppercase, no
\* transformation on a field with only @auth, and on a field with both (and
\* both definitions) one validation before the resolver and one
\* transformation after it.
C12_OwnDirectiveOnly ==
  \A r \in Res : Resolving(r) =>
    /\ \A i \in 1..Len(log[r]) :
         log[r][i].plugin # 0 => Carries(r, NameOf(log[r][i].plugin))
    /\ ~Carries(r, "auth") => Events(r, "validation") = {}
    /\ ~Carries(r, "uppercase") => Events(r, "transformation") = {}
    /\ (/\ pc[r] = "done"
        /\ Carries(r, "auth")
        /\ Carries(r, "uppercase")
        /\ schemaDirectives = DOMAIN DirectiveDefs) =>
         /\ Cardinality(Events(r, "validation")) = 1
         /\ Cardinality(Events(r, "transformation")) = 1
         /\ \A v \in Events(r, "validation") : \A t \in Events(r, "transformation") :
              \A c \in Events(r, "resolver") :
                /\ v < c /\ c < t
                /\ NameOf(log[r][v].plugin) = "auth"
                /\ NameOf(log[r][t].plugin) = "uppercase"

C12_Witness ==
  \E r \in Res :
    /\ fieldName[r] = "both"
    /\ pc[r] = "done"
    /\ Events(r, "validation") # {}
    /\ Events(r, "transformation") # {}
    /\ outcome[r] = Value(Str(<<"H", "I">>))

\* C13: when the field carries a registration's directive but the executing
\* schema has no definition of it, that registration decodes no arguments,
\* runs no validation and no transformation, does not call setResult and
\* raises no error; a field carrying only that directive yields the
\* resolver's result.
C13_UndefinedDirectiveInert ==
  \A r \in Res : \A p \in Registrations :
    (Resolving(r) /\ Carries(r, NameOf(p)) /\ NameOf(p) \notin schemaDirectives) =>
      /\ \A i \in 1..Len(log[r]) :
           log[r][i].plugin = p => log[r][i].ev = "located"
      /\ \A a \in 1..Len(afterCalls[r]) : afterCalls[r][a].plugin # p
      /\ (pc[r] = "error") => (Failing(r) # {} /\ FirstFailing(r) # p)
      /\ (\A q \in Registrations : ~Acts(r, q)) =>
           /\ pc[r] # "error"
           /\ pc[r] = "done" => outcome[r] = Value(ResolverValue(r))

C13_Witness ==
  \E r1, r2 \in Res :
    /\ "auth" \notin schemaDirectives
    /\ contextValue = {}
    /\ fieldName[r1] = "secretPassword"
    /\ EventsOf(r1, "located", AuthPlugin) # {}
    /\ outcome[r1] = Value(Secret)
    /\ fieldName[r2] = "noRole"
    /\ outcome[r2] = Value(Hi)

\* the field's @auth annotation gives no value for the required role
RoleOmitted(r) ==
  /\ Carries(r, "auth")
  /\ \A a \in AuthRole(r) : a[1] # "role"
\* the @auth registration's hook has run for this field resolution
AuthHookRan(r) ==
  pc[r] \in {"validating", "after", "done", "error"} \/ hookIdx[r] > AuthPlugin

\* C14: decoding @auth(role: Role!) from an annotation without a role
\* value fails whatever other arguments it has; the field ends in the
\* decode error and no validation, resolver, transformation or setResult
\* runs for it.
C14_MissingRequiredArgumentFails ==
  \A r \in Res :
    /\ (/\ Resolving(r)
        /\ RoleOmitted(r)
        /\ "auth" \in schemaDirectives
        /\ AuthHookRan(r)) =>
         /\ pc[r] = "error"
         /\ outcome[r] = FieldError(fieldName[r], ArgumentMissing)
         /\ EventsOf(r, "decodeFailed", AuthPlugin) # {}
         /\ \A i \in 1..Len(log[r]) :
              log[r][i].ev \in {"located", "defined", "decodeFailed"}
         /\ afterCalls[r] = <<>>
         /\ result[r] = Undefined
    /\ Events(r, "decodeFailed") # {} => (Resolving(r) /\ RoleOmitted(r))

C14_Witness ==
  \E r1, r2 \in Res :
    /\ fieldName[r1] = "noRole"
    /\ fieldName[r2] = "noRoleExtra"
    /\ \A r \in {r1, r2} :
         /\ EventsOf(r, "decodeFailed", AuthPlugin) # {}
         /\ outcome[r] = FieldError(fieldName[r], ArgumentMissing)

\* the stages registration p went through in field resolution r
Stages(r, p) ==
  LET own == SelectSeq(log[r], LAMBDA e : e.plugin = p)
  IN [i \in 1..Len(own) |-> own[i].ev]
\* directive-found, definition-resolved, args-decoded, validated,
\* (resolver-result-available,) transformed; a stage whose callback the
\* registration lacks is passed without a call
FullPath(p) ==
  <<"located", "defined", "decoded">>
    \o (IF Plugins[p].validation THEN <<"validation", "validated">> ELSE <<>>)
    \o (IF Plugins[p].transformation
          THEN <<"transformation", "setResult">> ELSE <<>>)
RejectedPath == <<"located", "defined", "decoded", "validation", "rejected">>
DecodeFailedPath == <<"located", "defined", "decodeFailed">>
InertPath == <<"located">>
IsPrefix(a, b) == Len(a) <= Len(b) /\ \A i \in 1..Len(a) : a[i] = b[i]
BeforeResolver ==
  {"located", "defined", "decoded", "decodeFailed", "validation",
   "validated", "rejected"}
HookReturned(r, p) == pc[r] \in {"after", "done"} \/ hookIdx[r] > p

\* stage order of one field resolution; complete names the stage sequences
\* a registration may have gone through once its hook has returned
StageOrder(r, complete(_)) ==
  /\ \A p \in Registrations :
       /\ \/ IsPrefix(Stages(r, p), FullPath(p))
          \/ Stages(r, p) \in {RejectedPath, DecodeFailedPath}
       /\ Stages(r, p) # <<>> => Carries(r, NameOf(p))
       /\ (HookReturned(r, p) /\ pc[r] # "error") =>
            /\ IF Carries(r, NameOf(p))
                 THEN \E c \in complete(p) : IsPrefix(Stages(r, p), c)
                                              /\ Len(Stages(r, p)) >= 1
                 ELSE Stages(r, p) = <<>>
            /\ pc[r] = "done" => Stages(r, p) \in complete(p) \cup {<<>>}
  /\ \A i \in Events(r, "resolver") : \A j \in 1..Len(log[r]) :
       /\ log[r][j].ev \in BeforeResolver => j < i
       /\ log[r][j].ev \in {"transformation", "setResult"} => i < j
  /\ Cardinality(Events(r, "resolver")) <= 1
  /\ pc[r] = "done" => Events(r, "resolver") # {}
  /\ pc[r] = "error" =>
       /\ Len(log[r]) >= 1
       /\ log[r][Len(log[r])].ev \in {"decodeFailed", "rejected"}

PathsOfClaim(p) == {FullPath(p)}
PathsWithInert(p) == {FullPath(p), InertPath}

OwnAnnotation(r, p) == FindDirective(Annotations(r), NameOf(p)).node

\* C16: the decoded arguments handed to a validation or transformation are
\* a mapping produced by a decode step of the same registration; for an
\* annotation without argument values on a directive without required
\* arguments (@uppercase) the decode step runs and the callbacks receive
\* the empty mapping.
C16_DecodedArgumentsAreMapping ==
  \A r \in Res : Resolving(r) =>
    /\ \A i \in Events(r, "validation") \cup Events(r, "transformation") :
         /\ \E j \in EventsOf(r, "decoded", log[r][i].plugin) :
              j < i /\ log[r][j].dargs = log[r][i].dargs
         /\ \A a \in log[r][i].dargs :
              /\ Len(a) = 2
              /\ \E d \in 1..Len(DirectiveDefs[NameOf(log[r][i].plugin)]) :
                   DirectiveDefs[NameOf(log[r][i].plugin)][d].name = a[1]
         /\ OwnAnnotation(r, log[r][i].plugin).arguments = {} =>
              log[r][i].dargs = {}
    /\ \A p \in Registrations :
         (/\ EventsOf(r, "defined", p) # {}
          /\ OwnAnnotation(r, p).arguments = {}
          /\ DirectiveDefs[NameOf(p)] = <<>>) =>
            \E j \in EventsOf(r, "decoded", p) : log[r][j].dargs = {}

C16_Witness ==
  \E r \in Res :
    /\ fieldName[r] = "testUpper"
    /\ \E j \in Events(r, "decoded") : log[r][j].dargs = {}
    /\ \E i \in Events(r, "transformation") : log[r][i].dargs = {}

\* C17: for every transformation callback the registration type admits,
\* the after-resolver hook calls setResult in the step in which the
\* transformation returns, and the value it stores is a final value, not a
\* pending promise.
C17_ReplacementIsFinalValue ==
  (hookSlot.pc = "returned" /\ hookOf.transformation # "none") =>
    /\ hookSlot.transformed
    /\ hookSlot.setResult
    /\ hookSlot.value.type # "promise"

C19_SetResultExactly ==
  \A r \in Res : \A p \in Registrations : Resolving(r) =>
    LET calls == EventsOf(r, "setResult", p)
    IN /\ Cardinality(calls) <= 1
       /\ ~Plugins[p].transformation => calls = {}
       /\ pc[r] # "done" => calls = {}
       /\ pc[r] = "done" =>
            (calls # {} <=> (Plugins[p].transformation /\ Acts(r, p)))
       /\ \A i \in calls :
            /\ log[r][i].value = transformation(p, ResolverValue(r))
            /\ result[r] = log[r][i].value
            /\ outcome[r] = Value(log[r][i].value)

C19_Witness ==
  \E r1, r2 \in Res :
    /\ fieldName[r1] = "anyUpper"
    /\ \E i \in Events(r1, "setResult") : log[r1][i].value = Undefined
    /\ ResolverValue(r1) = Undefined
    /\ fieldName[r2] = "me"
    /\ pc[r2] = "done"
    /\ Events(r2, "setResult") = {}

====
